---- MODULE Spec2Model ----
(***************************************************************************)
(* MySportsFeeds client (lib/my-sports-feeds-api): ApiBase, MlbApi, the    *)
(* config module, and the earlier ApiBase class (API v1.2) that ships in   *)
(* mlb-api.js.  A JavaScript string is modelled as a sequence of           *)
(* one-character strings, a JavaScript value as a record [t, v, n] (type   *)
(* tag, string payload, numeric payload), and an options object as the     *)
(* sequence of its own enumerable properties in insertion order.           *)
(***************************************************************************)
EXTENDS Integers, Sequences, FiniteSets

VARIABLES
  cls,       \* the class the entry point instantiates
  config,    \* the options handed to the client constructor
  opts,      \* the caller's options object (mutable, reused across calls)
  today,     \* the local calendar date of the latest reading of the clock
  ctor,      \* "none" | "ok" | "threw": outcome of the constructor
  client,    \* the constructed client object (this), or NoClient
  calls,     \* the invocations made so far, in call order
  requests   \* the HTTP requests issued so far, in issue order

vars == <<cls, config, opts, today, ctor, client, calls, requests>>

(***************************** bounds **************************************)
MaxCalls == 2
MaxKeys == 2

(***************************** characters **********************************)
\* printable ASCII, code points 32..126 (code point 96 is written "grave")
Ascii ==
  << " ", "!", "\"", "#", "$", "%", "&", "'", "(", ")", "*", "+", ",", "-", ".", "/",
     "0", "1", "2", "3", "4", "5", "6", "7", "8", "9", ":", ";", "<", "=", ">", "?",
     "@", "A", "B", "C", "D", "E", "F", "G", "H", "I", "J", "K", "L", "M", "N", "O",
     "P", "Q", "R", "S", "T", "U", "V", "W", "X", "Y", "Z", "[", "\\", "]", "^", "_",
     "grave", "a", "b", "c", "d", "e", "f", "g", "h", "i", "j", "k", "l", "m", "n", "o",
     "p", "q", "r", "s", "t", "u", "v", "w", "x", "y", "z", "{", "|", "}", "~" >>

CharCode(c) == 31 + (CHOOSE i \in 1..Len(Ascii) : Ascii[i] = c)

Digits == << "0", "1", "2", "3", "4", "5", "6", "7", "8", "9" >>

HexDigits ==
  << "0", "1", "2", "3", "4", "5", "6", "7", "8", "9", "A", "B", "C", "D", "E", "F" >>

B64Chars ==
  << "A", "B", "C", "D", "E", "F", "G", "H", "I", "J", "K", "L", "M", "N", "O", "P",
     "Q", "R", "S", "T", "U", "V", "W", "X", "Y", "Z", "a", "b", "c", "d", "e", "f",
     "g", "h", "i", "j", "k", "l", "m", "n", "o", "p", "q", "r", "s", "t", "u", "v",
     "w", "x", "y", "z", "0", "1", "2", "3", "4", "5", "6", "7", "8", "9", "+", "/" >>

(***************************** source constants ****************************)
CURRENT == << "c", "u", "r", "r", "e", "n", "t" >>
AUTHORIZATION == "Authorization"
GET == "GET"
API_VERSION == << "v", "2", ".", "1" >>

(***************************** JavaScript values ***************************)
Undefined == [t |-> "undefined", v |-> << >>, n |-> 0]
Null == [t |-> "null", v |-> << >>, n |-> 0]
Str(s) == [t |-> "string", v |-> s, n |-> 0]
Num(k) == [t |-> "number", v |-> << >>, n |-> k]
Obj(k) == [t |-> "object", v |-> << >>, n |-> k]

\* typeof x
TypeOf(x) == IF x.t = "null" THEN "object" ELSE x.t

\* ToBoolean(x), as used by the || operator
Truthy(x) ==
  CASE x.t = "undefined" -> FALSE
    [] x.t = "null" -> FALSE
    [] x.t = "string" -> x.v # << >>
    [] x.t = "number" -> x.n # 0
    [] OTHER -> TRUE

\* a || b
Or(a, b) == IF Truthy(a) THEN a ELSE b

RECURSIVE NumToStr(_)
\* decimal digits of a non-negative integer
NumToStr(k) ==
  IF k < 10 THEN << Digits[k + 1] >>
  ELSE NumToStr(k \div 10) \o << Digits[(k % 10) + 1] >>

\* ToString(x), as performed by a template literal `${x}`
JsToString(x) ==
  CASE x.t = "string" -> x.v
    [] x.t = "number" -> NumToStr(x.n)
    [] x.t = "undefined" -> << "u", "n", "d", "e", "f", "i", "n", "e", "d" >>
    [] x.t = "null" -> << "n", "u", "l", "l" >>
    [] OTHER -> << "[", "o", "b", "j", "e", "c", "t", " ", "O", "b", "j", "e", "c", "t", "]" >>

(***************************** options objects *****************************)
\* options[k]
Get(o, k) ==
  IF \E i \in 1..Len(o) : o[i].key = k
  THEN o[CHOOSE i \in 1..Len(o) : o[i].key = k].val
  ELSE Undefined

\* delete options[k]
Delete(o, k) == SelectSeq(o, LAMBDA p : p.key # k)

\* Object.keys(options)
ObjectKeys(o) == [i \in 1..Len(o) |-> o[i].key]

(***************************** querystring *********************************)
\* characters querystring.escape leaves alone: A-Z a-z 0-9 - _ . ! ~ * ' ( )
Unreserved ==
  { Ascii[i] : i \in 17..26 } \cup { Ascii[i] : i \in 34..59 }
    \cup { Ascii[i] : i \in 66..91 }
    \cup { "-", "_", ".", "!", "~", "*", "'", "(", ")" }

\* %XX of one byte, upper-case hexadecimal
PercentByte(b) == << "%", HexDigits[(b \div 16) + 1], HexDigits[(b % 16) + 1] >>

\* UTF-8 bytes of one code point below U+0800
Utf8Char(cp) ==
  IF cp < 128 THEN << cp >>
  ELSE << 192 + (cp \div 64), 128 + (cp % 64) >>

RECURSIVE Utf8Bytes(_)
\* UTF-8 bytes of a string
Utf8Bytes(s) ==
  IF s = << >> THEN << >>
  ELSE Utf8Char(CharCode(Head(s))) \o Utf8Bytes(Tail(s))

RECURSIVE PercentBytes(_)
PercentBytes(bs) ==
  IF bs = << >> THEN << >>
  ELSE PercentByte(Head(bs)) \o PercentBytes(Tail(bs))

RECURSIVE qsEscape(_)
\* querystring.escape(str)
qsEscape(s) ==
  IF s = << >> THEN << >>
  ELSE (IF Head(s) \in Unreserved THEN << Head(s) >>
        ELSE PercentBytes(Utf8Char(CharCode(Head(s)))))
       \o qsEscape(Tail(s))

\* stringifyPrimitive(v) of querystring
stringifyPrimitive(x) ==
  CASE x.t = "string" -> x.v
    [] x.t = "number" -> NumToStr(x.n)
    [] OTHER -> << >>

\* the property names of an options object, as strings of the model
KeyName(k) ==
  CASE k = "season" -> << "s", "e", "a", "s", "o", "n" >>
    [] k = "seasonName" -> << "s", "e", "a", "s", "o", "n", "N", "a", "m", "e" >>
    [] k = "date" -> << "d", "a", "t", "e" >>
    [] k = "game" -> << "g", "a", "m", "e" >>
    [] k = "forDate" -> << "f", "o", "r", "D", "a", "t", "e" >>

RECURSIVE stringifyFrom(_, _)
stringifyFrom(o, i) ==
  IF i > Len(o) THEN << >>
  ELSE (IF i > 1 THEN << "&" >> ELSE << >>)
       \o qsEscape(KeyName(o[i].key)) \o << "=" >>
       \o qsEscape(stringifyPrimitive(o[i].val))
       \o stringifyFrom(o, i + 1)

\* querystring.stringify(options)
stringify(o) == stringifyFrom(o, 1)

(***************************** moment **************************************)
\* zero-padded decimal of k in exactly w digits
RECURSIVE Pad(_, _)
Pad(k, w) ==
  IF w = 0 THEN << >>
  ELSE Pad(k \div 10, w - 1) \o << Digits[(k % 10) + 1] >>

\* moment().format('YYYYMMDD') for the local date d
FormatYYYYMMDD(d) == Pad(d.y, 4) \o Pad(d.m, 2) \o Pad(d.d, 2)

(***************************** Buffer / base64 *****************************)
RECURSIVE base64(_)
\* Buffer.prototype.toString('base64'): three bytes become four characters,
\* a last group of one or two bytes is padded with "="
base64(bs) ==
  IF bs = << >> THEN << >>
  ELSE IF Len(bs) = 1 THEN
    << B64Chars[(bs[1] \div 4) + 1], B64Chars[((bs[1] % 4) * 16) + 1], "=", "=" >>
  ELSE IF Len(bs) = 2 THEN
    << B64Chars[(bs[1] \div 4) + 1],
       B64Chars[((bs[1] % 4) * 16) + (bs[2] \div 16) + 1],
       B64Chars[((bs[2] % 16) * 4) + 1], "=" >>
  ELSE
    << B64Chars[(bs[1] \div 4) + 1],
       B64Chars[((bs[1] % 4) * 16) + (bs[2] \div 16) + 1],
       B64Chars[((bs[2] % 16) * 4) + (bs[3] \div 64) + 1],
       B64Chars[(bs[3] % 64) + 1] >>
    \o base64(SubSeq(bs, 4, Len(bs)))

BasicPrefix == << "B", "a", "s", "i", "c", " " >>

\* a generator that forgets the ":" between key and password
GenerateAuthHeaderNoColon(apiKey, password) ==
  BasicPrefix \o base64(Utf8Bytes(JsToString(apiKey) \o JsToString(password)))

\* _generateAuthHeader(apiKey, password)
_generateAuthHeader(apiKey, password) ==
  LET basicAuthString == JsToString(apiKey) \o << ":" >> \o JsToString(password)
      buffer == Utf8Bytes(basicAuthString)
      base64AuthString == base64(buffer)
  IN BasicPrefix \o base64AuthString

(***************************** config **************************************)
\* config.newInstance().mySportsFeeds for the process environment env
newInstance(env) == [apiKey |-> env.MSF_API_KEY, password |-> env.MSF_API_PASSWORD]

(***************************** constructors ********************************)
NoClient ==
  [cls |-> "none", _authHeader |-> << >>, _baseUrl |-> << >>, _leaguePath |-> << >>]

BaseUrl ==
  << "h", "t", "t", "p", "s", ":", "/", "/", "a", "p", "i", ".",
     "m", "y", "s", "p", "o", "r", "t", "s", "f", "e", "e", "d", "s", ".",
     "c", "o", "m", "/" >> \o API_VERSION \o << "/", "p", "u", "l", "l" >>

\* a check that lets every value through
CheckIsStringAcceptsAll(value) == [threw |-> FALSE, value |-> value, error |-> ""]

\* precond.checkIsString(value): throws unless typeof value is "string"
checkIsString(value) ==
  [threw |-> TypeOf(value) # "string", value |-> value,
   error |-> IF TypeOf(value) # "string" THEN "IllegalArgumentError" ELSE ""]

\* a constructor that validates the key only
ApiBaseChecksKeyOnly(options) ==
  LET apiKey == checkIsString(options.apiKey)
  IN IF apiKey.threw THEN [threw |-> TRUE, this |-> NoClient]
     ELSE [threw |-> FALSE,
           this |-> [cls |-> "ApiBase",
                     _authHeader |-> _generateAuthHeader(apiKey.value, options.password),
                     _baseUrl |-> BaseUrl,
                     _leaguePath |-> << >>]]

\* new ApiBase(options)
ApiBase(options) ==
  LET apiKey == checkIsString(options.apiKey)
      password == checkIsString(options.password)
  IN IF apiKey.threw \/ password.threw THEN [threw |-> TRUE, this |-> NoClient]
     ELSE [threw |-> FALSE,
           this |-> [cls |-> "ApiBase",
                     _authHeader |-> _generateAuthHeader(apiKey.value, password.value),
                     _baseUrl |-> BaseUrl,
                     _leaguePath |-> << >>]]

\* new MlbApi(options): super(options), then the league path is set
MlbApi(options) ==
  LET super == ApiBase(options)
  IN IF super.threw THEN super
     ELSE [threw |-> FALSE,
           this |-> [super.this EXCEPT !.cls = "MlbApi",
                                       !._leaguePath = << "/", "m", "l", "b" >>]]

\* base URL of the earlier class
LegacyBaseUrl ==
  << "h", "t", "t", "p", "s", ":", "/", "/", "a", "p", "i", ".",
     "m", "y", "s", "p", "o", "r", "t", "s", "f", "e", "e", "d", "s", ".",
     "c", "o", "m", "/", "v", "1", ".", "2", "/", "p", "u", "l", "l" >>

\* new ApiBase(options) of the earlier class (mlb-api.js, second part)
LegacyApiBase(options) ==
  LET apiKey == checkIsString(options.apiKey)
      password == checkIsString(options.password)
  IN IF apiKey.threw \/ password.threw THEN [threw |-> TRUE, this |-> NoClient]
     ELSE [threw |-> FALSE,
           this |-> [cls |-> "LegacyApiBase",
                     _authHeader |-> _generateAuthHeader(apiKey.value, password.value),
                     _baseUrl |-> LegacyBaseUrl,
                     _leaguePath |-> << >>]]

\* new MlbApi(options) when MlbApi extends the earlier class, as in the
\* entry point that calls fullGameSchedule: super(options), then the league path
LegacyMlbApi(options) ==
  LET super == LegacyApiBase(options)
  IN IF super.threw THEN super
     ELSE [threw |-> FALSE,
           this |-> [super.this EXCEPT !.cls = "LegacyMlbApi",
                                       !._leaguePath = << "/", "m", "l", "b" >>]]

(***************************** request building ****************************)
\* this._buildRequest(method, url)
_buildRequest(this, method, url) ==
  [method |-> method, url |-> url,
   headers |-> [h \in {AUTHORIZATION} |-> this._authHeader]]

\* a URL builder that drops the league path
ApiUrlNoLeague(this, path) == this._baseUrl \o path

\* this._apiUrl(path)
_apiUrl(this, path) == this._baseUrl \o this._leaguePath \o path

\* request.get(url).set(AUTHORIZATION, this._authHeader) of the earlier class
legacyRequest(this, url) ==
  [method |-> GET, url |-> url,
   headers |-> [h \in {AUTHORIZATION} |-> this._authHeader]]

(***************************** operations **********************************)
\* Each operator below is the synchronous part of the async method, up to the
\* point where the request is awaited: the options object as the method leaves
\* it, whether a precondition threw, and the URL handed to _buildRequest.

\* seasonGames(options), lines up to the await
seasonGames(this, options) ==
  LET seasonName == Or(Get(options, "seasonName"), Str(CURRENT))
      rest == Delete(options, "seasonName")
      base == << "/" >> \o JsToString(seasonName)
                \o << "/", "g", "a", "m", "e", "s", ".", "j", "s", "o", "n" >>
      path == IF Len(ObjectKeys(rest)) # 0
              THEN base \o << "?" >> \o stringify(rest)
              ELSE base
  IN [options |-> rest, threw |-> FALSE, error |-> "", url |-> _apiUrl(this, path)]

\* dailyGames(options), lines up to the await; now is the local date
dailyGames(this, options, now) ==
  LET season == Or(Get(options, "season"), Str(CURRENT))
      rest1 == Delete(options, "season")
      date == Or(Get(rest1, "date"), Str(FormatYYYYMMDD(now)))
      rest == Delete(rest1, "date")
      base == << "/" >> \o JsToString(season)
                \o << "/", "d", "a", "t", "e", "/" >> \o JsToString(date)
                \o << "/", "g", "a", "m", "e", "s", ".", "j", "s", "o", "n" >>
      path == IF Len(ObjectKeys(rest)) # 0
              THEN base \o << "?" >> \o stringify(rest)
              ELSE base
  IN [options |-> rest, threw |-> FALSE, error |-> "", url |-> _apiUrl(this, path)]

PlayerGamelogsJson ==
  << "/", "p", "l", "a", "y", "e", "r", "_", "g", "a", "m", "e", "l", "o", "g", "s",
     ".", "j", "s", "o", "n" >>

\* a seasonalPlayerGamelogs without the check of options.game
SeasonalPlayerGamelogsNoCheck(this, options) ==
  LET season == Or(Get(options, "season"), Str(CURRENT))
      rest == Delete(options, "season")
      base == << "/" >> \o JsToString(season) \o PlayerGamelogsJson
      path == IF Len(ObjectKeys(rest)) # 0
              THEN base \o << "?" >> \o stringify(rest)
              ELSE base
  IN [options |-> rest, threw |-> FALSE, error |-> "", url |-> _apiUrl(this, path)]

\* seasonalPlayerGamelogs(options), lines up to the await
seasonalPlayerGamelogs(this, options) ==
  LET season == Or(Get(options, "season"), Str(CURRENT))
      rest == Delete(options, "season")
      game == checkIsString(Get(rest, "game"))
      base == << "/" >> \o JsToString(season) \o PlayerGamelogsJson
      path == IF Len(ObjectKeys(rest)) # 0
              THEN base \o << "?" >> \o stringify(rest)
              ELSE base
  IN IF game.threw
     THEN [options |-> rest, threw |-> TRUE, error |-> game.error, url |-> << >>]
     ELSE [options |-> rest, threw |-> FALSE, error |-> "", url |-> _apiUrl(this, path)]

\* fullGameSchedule(options) of the earlier class, lines up to the await:
\* the options object is read, never changed, and nothing of it is serialised
fullGameSchedule(this, options) ==
  LET seasonName == Or(Get(options, "seasonName"), Str(CURRENT))
      path == << "/" >> \o JsToString(seasonName)
                \o << "/", "f", "u", "l", "l", "_", "g", "a", "m", "e", "_",
                      "s", "c", "h", "e", "d", "u", "l", "e", ".", "j", "s", "o", "n" >>
  IN [options |-> options, threw |-> FALSE, error |-> "", url |-> _apiUrl(this, path)]

\* dailyGameSchedule(options) of the earlier class, lines up to the await:
\* the path has no "/" before the season
dailyGameSchedule(this, options, now) ==
  LET seasonName == Or(Get(options, "seasonName"), Str(CURRENT))
      forDate == Or(Get(options, "forDate"), Str(FormatYYYYMMDD(now)))
      path == JsToString(seasonName)
                \o << "/", "d", "a", "i", "l", "y", "_", "g", "a", "m", "e", "_",
                      "s", "c", "h", "e", "d", "u", "l", "e", ".", "j", "s", "o", "n",
                      "?", "f", "o", "r", "D", "a", "t", "e", "=" >>
                \o JsToString(forDate)
  IN [options |-> options, threw |-> FALSE, error |-> "", url |-> _apiUrl(this, path)]

\* the methods each class defines
Methods(c) ==
  IF c \in { "LegacyApiBase", "LegacyMlbApi" }
  THEN { "fullGameSchedule", "dailyGameSchedule" }
  ELSE IF c \in { "ApiBase", "MlbApi" }
       THEN { "seasonGames", "dailyGames", "seasonalPlayerGamelogs" }
       ELSE { }

\* after the await succeeds in the earlier class: return res
legacyOnFulfilled(res) == res

\* a continuation that hands back the whole response
ReturnWholeResponse(res) == res

\* after the await succeeds: return res.body
onFulfilled(res) == res.body

\* a catch block that tries the request once more
CatchAndRetry(this, url, err) ==
  [logged |-> 1, result |-> Null, requests |-> << _buildRequest(this, GET, url) >>]

\* the catch block: console.error(err); return null.  It issues no request.
\* logged counts the lines written to standard error.
onRejected(this, url, err) ==
  [logged |-> 1, result |-> Null, requests |-> << >>]

(***************************** inputs **************************************)
S_key == << "k", "e", "y" >>
S_pw == << "p", "w" >>
S_season == << "2", "0", "1", "9", "-", "r", "e", "g", "u", "l", "a", "r" >>
S_seasonName == << "2", "0", "1", "8", "-", "p", "l", "a", "y", "o", "f", "f" >>
S_date == << "2", "0", "1", "9", "0", "9", "2", "4" >>
S_game == << "2", "0", "1", "9", "0", "9", "2", "4", "-", "N", "Y", "Y", "-", "T", "B" >>
S_odd == << "a", " ", "b", "&", "c" >>

\* values a caller may give each option
OptionValues(k) ==
  CASE k = "season" -> { Str(S_season), Str(<< >>) }
    [] k = "seasonName" -> { Str(S_seasonName) }
    [] k = "date" -> { Str(S_date) }
    [] k = "game" -> { Str(S_game), Str(S_odd), Num(7) }
    [] k = "forDate" -> { Str(S_date) }

\* ApiBase of api-base.js and MlbApi over it; the ApiBase that ships in
\* mlb-api.js and MlbApi over that one
Classes == { "ApiBase", "MlbApi", "LegacyApiBase", "LegacyMlbApi" }

\* the options a caller of class c gives: those its methods read, and `game`
\* (read by seasonalPlayerGamelogs, an extra property elsewhere)
OptionKeys(c) ==
  IF c \in { "LegacyApiBase", "LegacyMlbApi" } THEN { "seasonName", "forDate", "game" }
  ELSE { "season", "seasonName", "date", "game" }

Properties(c) ==
  UNION { { [key |-> k, val |-> x] : x \in OptionValues(k) } : k \in OptionKeys(c) }

\* option objects of at most MaxKeys properties, in every insertion order
OptionObjects(c) ==
  UNION { { o \in [1..len -> Properties(c)] :
              \A i, j \in 1..len : i # j => o[i].key # o[j].key } : len \in 0..MaxKeys }

\* the caller either passes an options object or calls without an argument
OptionInputs(c) ==
  { [passed |-> TRUE, obj |-> o] : o \in OptionObjects(c) }
    \cup { [passed |-> FALSE, obj |-> << >>] }

\* the days the clock passes through, in order
Dates == << [y |-> 2019, m |-> 9, d |-> 24], [y |-> 2020, m |-> 1, d |-> 5] >>

\* process environments: each variable unset or set
Envs ==
  { [MSF_API_KEY |-> a, MSF_API_PASSWORD |-> b] :
      a \in { Undefined, Str(<< >>), Str(S_key), Str(<< "a", "b" >>) },
      b \in { Undefined, Str(<< >>), Str(S_pw) } }

\* constructor options: from the environment, or written out by the caller
AllConfigs ==
  { newInstance(e) : e \in Envs }
    \cup { [apiKey |-> Num(7), password |-> Str(S_pw)],
           [apiKey |-> Str(S_key), password |-> Num(0)],
           [apiKey |-> Null, password |-> Str(S_pw)] }

FewConfigs ==
  { newInstance([MSF_API_KEY |-> Str(S_key), MSF_API_PASSWORD |-> Str(S_pw)]),
    newInstance([MSF_API_KEY |-> Undefined, MSF_API_PASSWORD |-> Str(S_pw)]) }

FewOptionInputs ==
  { [passed |-> FALSE, obj |-> << >>],
    [passed |-> TRUE, obj |-> << [key |-> "game", val |-> Str(S_game)] >>],
    [passed |-> TRUE, obj |-> << [key |-> "season", val |-> Str(S_season)],
                                 [key |-> "date", val |-> Str(S_date)] >>],
    [passed |-> TRUE, obj |-> << [key |-> "seasonName", val |-> Str(S_seasonName)],
                                 [key |-> "forDate", val |-> Str(S_date)] >>] }

Responses == { [status |-> 200, body |-> Obj(1)] }

Errors == { "ECONNREFUSED", "HTTP 500" }

(***************************** state machine *******************************)
InitCommon ==
  /\ cls \in Classes
  /\ today = Dates[1]
  /\ ctor = "none"
  /\ client = NoClient
  /\ calls = << >>
  /\ requests = << >>

\* the entry point: many option objects, few credentials
Init == InitCommon /\ config \in FewConfigs /\ opts \in OptionInputs(cls)

\* the credential cases: every configuration, few option objects
InitAuth == InitCommon /\ config \in AllConfigs /\ opts \in FewOptionInputs

\* new MySportsFeedsApi.MLB(config) or new ApiBase(config)
Construct ==
  /\ ctor = "none"
  /\ LET r == CASE cls = "MlbApi" -> MlbApi(config)
                [] cls = "ApiBase" -> ApiBase(config)
                [] cls = "LegacyApiBase" -> LegacyApiBase(config)
                [] cls = "LegacyMlbApi" -> LegacyMlbApi(config)
     IN /\ ctor' = IF r.threw THEN "threw" ELSE "ok"
        /\ client' = r.this
  /\ UNCHANGED <<cls, config, opts, today, calls, requests>>

\* the options object a method runs on: the caller's, or a fresh {} by default
Argument == IF opts.passed THEN opts.obj ELSE << >>

\* record one invocation whose synchronous part gave r
Invoke(op, r, req, now) ==
  LET id == Len(calls) + 1
  IN /\ calls' = Append(calls,
                   [op |-> op, passed |-> opts.passed, before |-> Argument,
                    after |-> IF opts.passed THEN r.options ELSE << >>,
                    today |-> now,
                    pc |-> IF r.threw THEN "threw" ELSE "awaiting",
                    error |-> r.error, outcome |-> "pending",
                    res |-> [status |-> 0, body |-> Undefined],
                    logged |-> 0, result |-> Undefined])
     /\ opts' = IF opts.passed THEN [opts EXCEPT !.obj = r.options] ELSE opts
     /\ requests' = IF r.threw THEN requests
                    ELSE Append(requests,
                                [call |-> id, req |-> req])
     /\ today' = now
     /\ UNCHANGED <<cls, config, ctor, client>>

\* the dates moment() may read now: the clock does not run backwards
Clock == { Dates[k] : k \in { k \in 1..Len(Dates) : \E m \in 1..k : Dates[m] = today } }

\* a method is called on a constructed client whose class defines it
CanCall(op) == ctor = "ok" /\ op \in Methods(client.cls) /\ Len(calls) < MaxCalls

SeasonGames ==
  /\ CanCall("seasonGames")
  /\ LET r == seasonGames(client, Argument)
     IN Invoke("seasonGames", r, _buildRequest(client, GET, r.url), today)

DailyGames ==
  /\ CanCall("dailyGames")
  /\ \E now \in Clock :
       LET r == dailyGames(client, Argument, now)
       IN Invoke("dailyGames", r, _buildRequest(client, GET, r.url), now)

SeasonalPlayerGamelogs ==
  /\ CanCall("seasonalPlayerGamelogs")
  /\ LET r == seasonalPlayerGamelogs(client, Argument)
     IN Invoke("seasonalPlayerGamelogs", r, _buildRequest(client, GET, r.url), today)

FullGameSchedule ==
  /\ CanCall("fullGameSchedule")
  /\ LET r == fullGameSchedule(client, Argument)
     IN Invoke("fullGameSchedule", r, legacyRequest(client, r.url), today)

DailyGameSchedule ==
  /\ CanCall("dailyGameSchedule")
  /\ \E now \in Clock :
       LET r == dailyGameSchedule(client, Argument, now)
       IN Invoke("dailyGameSchedule", r, legacyRequest(client, r.url), now)

\* the URL invocation i requested ("" when it issued no request)
UrlOf(i) ==
  IF \E k \in 1..Len(requests) : requests[k].call = i
  THEN requests[CHOOSE k \in 1..Len(requests) :
                  requests[k].call = i
                  /\ \A m \in 1..(k - 1) : requests[m].call # i].req.url
  ELSE << >>

\* the awaited request of call i succeeds with response res
Fulfil(i, res) ==
  /\ calls[i].pc = "awaiting"
  /\ calls' = [calls EXCEPT ![i].pc = "returned", ![i].outcome = "fulfilled",
                            ![i].res = res,
                            ![i].result = IF calls[i].op \in { "fullGameSchedule",
                                                                "dailyGameSchedule" }
                                          THEN legacyOnFulfilled(res)
                                          ELSE onFulfilled(res)]
  /\ UNCHANGED <<cls, config, opts, today, ctor, client, requests>>

\* the awaited request of call i rejects with err
Reject(i, err) ==
  /\ calls[i].pc = "awaiting"
  /\ LET h == onRejected(client, UrlOf(i), err)
     IN /\ calls' = [calls EXCEPT ![i].pc = "returned", ![i].outcome = "rejected",
                                  ![i].logged = h.logged, ![i].result = h.result]
        /\ requests' = requests \o [k \in 1..Len(h.requests) |->
                                      [call |-> i, req |-> h.requests[k]]]
  /\ UNCHANGED <<cls, config, opts, today, ctor, client>>

Next ==
  \/ Construct
  \/ SeasonGames
  \/ DailyGames
  \/ SeasonalPlayerGamelogs
  \/ FullGameSchedule
  \/ DailyGameSchedule
  \/ \E i \in 1..Len(calls), res \in Responses : Fulfil(i, res)
  \/ \E i \in 1..Len(calls), err \in Errors : Reject(i, err)

Spec == Init /\ [][Next]_vars

SpecAuth == InitAuth /\ [][Next]_vars

(***************************** helpers of the properties *******************)
\* number of requests issued by invocation i
ReqsOf(i) == Cardinality({ k \in 1..Len(requests) : requests[k].call = i })

\* s starts with p
HasPrefix(s, p) == Len(p) <= Len(s) /\ SubSeq(s, 1, Len(p)) = p

\* the part of the URL of invocation i that follows base URL and league path
PathOf(i) ==
  SubSeq(UrlOf(i), Len(client._baseUrl) + Len(client._leaguePath) + 1,
         Len(UrlOf(i)))

\* index of the first "?" of s, or Len(s) + 1
QueryMark(s) ==
  IF \E k \in 1..Len(s) : s[k] = "?"
  THEN CHOOSE k \in 1..Len(s) : s[k] = "?" /\ \A m \in 1..(k - 1) : s[m] # "?"
  ELSE Len(s) + 1

\* the query string of a path ("" when it has none)
QueryOf(s) == SubSeq(s, QueryMark(s) + 1, Len(s))

\* the query string q has a parameter named name
HasParam(q, name) ==
  LET p == name \o << "=" >>
  IN \E k \in 1..Len(q) :
       /\ k = 1 \/ q[k - 1] = "&"
       /\ HasPrefix(SubSeq(q, k, Len(q)), p)

HasKey(o, k) == \E i \in 1..Len(o) : o[i].key = k

\* the three operations of the current client
CurrentOps == { "seasonGames", "dailyGames", "seasonalPlayerGamelogs" }

\* the invocations of those operations
CurrentCalls == { i \in 1..Len(calls) : calls[i].op \in CurrentOps }

\* invocation i passed parameter validation
Validated(i) ==
  calls[i].op = "seasonalPlayerGamelogs" => TypeOf(Get(calls[i].before, "game")) = "string"

(***************************** properties **********************************)
\* C1: a seasonalPlayerGamelogs call whose options have no `game`, or a `game`
\* that is not a string, fails with the precondition error and issues no HTTP
\* request, whatever the other options are.
C1_GameRequired ==
  \A i \in 1..Len(calls) :
    (calls[i].op = "seasonalPlayerGamelogs"
       /\ TypeOf(Get(calls[i].before, "game")) # "string")
    => /\ calls[i].pc = "threw"
       /\ calls[i].error = "IllegalArgumentError"
       /\ calls[i].result = Undefined
       /\ ReqsOf(i) = 0

\* a gamelogs call without `game` but with another option has thrown
C1_Witness ==
  \E i \in 1..Len(calls) :
    /\ calls[i].op = "seasonalPlayerGamelogs"
    /\ ~HasKey(calls[i].before, "game")
    /\ HasKey(calls[i].before, "season")
    /\ calls[i].pc = "threw"

\* C2: with valid parameters none of the three operations raises; when the
\* request rejects the operation completes with null, when it succeeds the
\* operation completes with the body of the response.
C2_NullOnFailure ==
  \A i \in CurrentCalls :
    Validated(i)
    => /\ calls[i].pc # "threw"
       /\ calls[i].outcome = "rejected"
            => calls[i].pc = "returned" /\ calls[i].result = Null
       /\ calls[i].outcome = "fulfilled"
            => /\ calls[i].pc = "returned"
               /\ calls[i].res \in Responses
               /\ calls[i].result = calls[i].res.body

\* one call has come back null after a rejection, another with a body
C2_Witness ==
  \E i, j \in CurrentCalls :
    /\ calls[i].outcome = "rejected" /\ calls[i].result = Null
    /\ calls[j].outcome = "fulfilled" /\ calls[j].result = Obj(1)

\* C9: every invocation issues at most one request, a GET: exactly one when
\* validation passes, none when it fails, and a rejected request is not
\* retried before the invocation returns null.
C9_OneRequestNoRetry ==
  /\ \A i \in CurrentCalls :
       /\ ReqsOf(i) <= 1
       /\ Validated(i) => ReqsOf(i) = 1
       /\ ~Validated(i) => ReqsOf(i) = 0
       /\ calls[i].outcome = "rejected" => ReqsOf(i) = 1 /\ calls[i].result = Null
  /\ \A k \in 1..Len(requests) :
       /\ requests[k].req.method = GET
       /\ requests[k].call \in 1..Len(calls)

\* a rejected invocation has returned null having issued its single request
C9_Witness ==
  \E i \in CurrentCalls :
    /\ calls[i].outcome = "rejected"
    /\ calls[i].pc = "returned"
    /\ ReqsOf(i) = 1

\* both credentials handed to the constructor are strings
StringCredentials ==
  TypeOf(config.apiKey) = "string" /\ TypeOf(config.password) = "string"

\* C3: constructing ApiBase or MlbApi with an apiKey or password that is
\* undefined (environment variable unset) or otherwise not a string fails at
\* construction: no client exists, no operation runs, no request is issued.
C3_BadCredentialsFailConstruction ==
  (ctor # "none" /\ ~StringCredentials)
  => /\ ctor = "threw"
     /\ client = NoClient
     /\ calls = << >>
     /\ requests = << >>

\* construction was attempted with the key variable unset, and threw
C3_Witness ==
  /\ ctor = "threw"
  /\ config.apiKey = Undefined
  /\ TypeOf(config.password) = "string"

\* RFC 4648 base64, stated on the bit string of the input
RECURSIVE BitsOf(_)
BitsOf(bs) ==
  IF bs = << >> THEN << >>
  ELSE [k \in 1..8 |-> (Head(bs) \div (2 ^ (8 - k))) % 2] \o BitsOf(Tail(bs))

RefBase64(bs) ==
  LET bits == BitsOf(bs)
      padded == bits \o [k \in 1..((6 - (Len(bits) % 6)) % 6) |-> 0]
      count == Len(padded) \div 6
      sextet(k) == 32 * padded[6 * k - 5] + 16 * padded[6 * k - 4] + 8 * padded[6 * k - 3]
                   + 4 * padded[6 * k - 2] + 2 * padded[6 * k - 1] + padded[6 * k]
  IN [k \in 1..count |-> B64Chars[sextet(k) + 1]]
     \o [k \in 1..((4 - (count % 4)) % 4) |-> "="]

\* "Basic " followed by base64(key + ":" + password)
ExpectedAuthHeader ==
  LET text == config.apiKey.v \o << ":" >> \o config.password.v
  IN << "B", "a", "s", "i", "c", " " >>
     \o RefBase64([k \in 1..Len(text) |-> CharCode(text[k])])

\* C4: for every accepted pair of strings the auth header stored on the client
\* is "Basic " followed by base64(key ":" password), and every request built
\* carries exactly that value as its Authorization header.
C4_AuthHeader ==
  ctor = "ok"
  => /\ client._authHeader = ExpectedAuthHeader
     /\ \A k \in 1..Len(requests) :
          /\ DOMAIN requests[k].req.headers = { "Authorization" }
          /\ requests[k].req.headers["Authorization"] = ExpectedAuthHeader

\* a client built from key "key" and password "pw" has issued a request
C4_Witness ==
  /\ ctor = "ok"
  /\ config.apiKey = Str(S_key)
  /\ config.password = Str(S_pw)
  /\ requests # << >>

\* C10 as stated: the constructor rejects empty credentials, so no client is
\* ever built from an empty key or an empty password.
C10_NonEmptyEnforced ==
  ctor = "ok" => config.apiKey.v # << >> /\ config.password.v # << >>

\* C10 amended: the constructor enforces only that both credentials are
\* strings.  Construction succeeds exactly for pairs of strings, the empty
\* string included, and the header is then built from the empty credential.
C10_StringsEnforced ==
  ctor # "none"
  => /\ (ctor = "ok") <=> StringCredentials
     /\ (ctor = "ok" /\ config.apiKey.v = << >> /\ config.password.v = << >>)
          => client._authHeader = << "B", "a", "s", "i", "c", " ", "O", "g", "=", "=" >>

\* a client exists whose key and password are both the empty string
C10_Witness ==
  /\ ctor = "ok"
  /\ config.apiKey = Str(<< >>)
  /\ config.password = Str(<< >>)
  /\ client # NoClient

RECURSIVE Split(_, _)
\* the pieces of s between occurrences of the character sep
Split(s, sep) ==
  IF \E k \in 1..Len(s) : s[k] = sep
  THEN LET k == CHOOSE k \in 1..Len(s) : s[k] = sep /\ \A m \in 1..(k - 1) : s[m] # sep
       IN << SubSeq(s, 1, k - 1) >> \o Split(SubSeq(s, k + 1, Len(s)), sep)
  ELSE << s >>

\* the "/"-separated segments of the path of invocation i, query excluded;
\* segment 1 is the empty string before the leading "/"
SegmentsOf(i) == Split(SubSeq(PathOf(i), 1, QueryMark(PathOf(i)) - 1), "/")

\* C5: when the `season` option is omitted the season segment of the requested
\* path is "current" in each of the three operations, and when the `date`
\* option of dailyGames is omitted the date segment is today's date as YYYYMMDD.
C5_Defaults ==
  \A i \in CurrentCalls :
    calls[i].pc # "threw"
    => /\ ~HasKey(calls[i].before, "season") => SegmentsOf(i)[2] = CURRENT
       /\ (calls[i].op = "dailyGames" /\ ~HasKey(calls[i].before, "date"))
            => SegmentsOf(i)[4] = FormatYYYYMMDD(calls[i].today)

\* C6: in each of the three operations a non-empty string given as the
\* documented `season` option becomes the first path segment and is not sent
\* as a query-string parameter.
C6_SeasonInPath ==
  \A i \in CurrentCalls :
    (/\ calls[i].pc # "threw"
     /\ TypeOf(Get(calls[i].before, "season")) = "string"
     /\ Get(calls[i].before, "season").v # << >>)
    => /\ HasPrefix(PathOf(i), << "/" >> \o Get(calls[i].before, "season").v \o << "/" >>)
       /\ ~HasParam(QueryOf(PathOf(i)), << "s", "e", "a", "s", "o", "n" >>)

\* the league path each class of client is documented to use
LeaguePathOf(c) == IF c = "MlbApi" THEN << "/", "m", "l", "b" >> ELSE << >>

GamelogsCurrentGame ==
  << "/", "c", "u", "r", "r", "e", "n", "t", "/", "p", "l", "a", "y", "e", "r", "_",
     "g", "a", "m", "e", "l", "o", "g", "s", ".", "j", "s", "o", "n", "?",
     "g", "a", "m", "e", "=" >>

\* invocation i is seasonalPlayerGamelogs({ game: g }) for a string g
OnlyGame(i) ==
  /\ calls[i].op = "seasonalPlayerGamelogs"
  /\ Len(calls[i].before) = 1
  /\ calls[i].before[1].key = "game"
  /\ TypeOf(calls[i].before[1].val) = "string"

\* C7 as stated: for every string g, seasonalPlayerGamelogs({ game: g })
\* requests baseUrl + leaguePath + "/current/player_gamelogs.json?game=" + g.
C7_GamelogsUrlVerbatim ==
  \A i \in 1..Len(calls) :
    OnlyGame(i)
    => UrlOf(i) = client._baseUrl \o LeaguePathOf(client.cls)
                        \o GamelogsCurrentGame \o calls[i].before[1].val.v

HexValue(c) == (CHOOSE k \in 1..16 : HexDigits[k] = c) - 1

RECURSIVE PercentDecode(_)
\* the string whose %XX escapes (of ASCII characters) are undone
PercentDecode(s) ==
  IF s = << >> THEN << >>
  ELSE IF Head(s) = "%"
       THEN << Ascii[16 * HexValue(s[2]) + HexValue(s[3]) - 31] >>
              \o PercentDecode(SubSeq(s, 4, Len(s)))
       ELSE << Head(s) >> \o PercentDecode(Tail(s))

\* C7 amended: the URL is baseUrl + leaguePath +
\* "/current/player_gamelogs.json?game=" followed by g with every character
\* other than a letter, a digit or one of - _ . ! ~ * ' ( ) replaced by its
\* %XX escape; it ends in g itself exactly when g has no such character.
C7_GamelogsUrlEscaped ==
  \A i \in 1..Len(calls) :
    OnlyGame(i)
    => LET g == calls[i].before[1].val.v
           head == client._baseUrl \o LeaguePathOf(client.cls) \o GamelogsCurrentGame
           tail == SubSeq(UrlOf(i), Len(head) + 1, Len(UrlOf(i)))
       IN /\ HasPrefix(UrlOf(i), head)
          /\ \A k \in 1..Len(tail) : tail[k] \in Unreserved \cup { "%" }
          /\ PercentDecode(tail) = g
          /\ (\A k \in 1..Len(g) : g[k] \in Unreserved) => tail = g

\* an MlbApi client has requested the gamelogs of game 20190924-NYY-TB
C7_Witness ==
  \E i \in 1..Len(calls) :
    /\ OnlyGame(i)
    /\ calls[i].before[1].val.v = S_game
    /\ client.cls = "MlbApi"
    /\ calls[i].pc = "awaiting"
    /\ ReqsOf(i) = 1

\* C8: a call leaves the caller's options object unchanged, and the same
\* operation called twice in a row with the same options object (on the same
\* day) requests the same URL both times.
C8_NoSharedMutableState ==
  /\ \A i \in CurrentCalls : calls[i].passed => calls[i].after = calls[i].before
  /\ \A i \in CurrentCalls :
       (/\ i + 1 <= Len(calls)
        /\ calls[i].passed /\ calls[i + 1].passed
        /\ calls[i].op = calls[i + 1].op
        /\ calls[i].today = calls[i + 1].today
        /\ calls[i].pc # "threw" /\ calls[i + 1].pc # "threw")
       => UrlOf(i) = UrlOf(i + 1)

====
